---- MODULE Spec2Model ----
(***************************************************************************)
(* Model of scripts/fix-cloud-run-traffic.py: main() issues four gcloud    *)
(* calls (describe json, revisions list, describe export, services replace)*)
(* and patches spec.traffic of the YAML document at /tmp/service.yaml.     *)
(***************************************************************************)
EXTENDS Integers, Sequences, FiniteSets

\* ------------------------------------------------------------------ bounds
MaxRevs == 2
MaxRuns == 2

\* --------------------------------------------------- constants of main()
service_name == "prop-management"
region == "europe-west4"
project == "rentalspot-fzwom"
export_file == "/tmp/service.yaml"

Procs == {1, 2}

\* ------------------------------------------------ texts and Python values
\* A text (a file's content, a captured stdout) is a tree: a scalar, a list
\* of records, or a mapping written as an ORDERED sequence of <<key, text>>
\* entries.  "bad" is text no parser accepts, "empty" the empty text.
Text(tag, str, items, list) == [tag |-> tag, str |-> str, items |-> items, list |-> list]
Bad == Text("bad", "", <<>>, <<>>)
Empty == Text("empty", "", <<>>, <<>>)
Null == Text("null", "", <<>>, <<>>)
Str(s) == Text("str", s, <<>>, <<>>)
List(l) == Text("list", "", <<>>, l)
Map(items) == Text("map", "", items, <<>>)
\* the state of a path that holds no file
Absent == Text("absent", "", <<>>, <<>>)

\* A Python value: None, a str, a list, or a dict (a function on its keys).
NoKeys == [k \in {} |-> 0]
Py(tag, str, dict, list) == [tag |-> tag, str |-> str, dict |-> dict, list |-> list]
PyNone == Py("none", "", NoKeys, <<>>)
PyStr(s) == Py("str", s, NoKeys, <<>>)
PyList(l) == Py("list", "", NoKeys, l)
PyDict(d) == Py("dict", "", d, <<>>)

\* every mapping key of the documents, in the order sort_keys=True emits them
KeyOrder == <<"apiVersion", "kind", "metadata", "spec", "template", "traffic">>

\* yaml.safe_load raises on malformed text; the empty text loads as None
yaml_load_raises(content) == content.tag = "bad"
\* json.loads raises on malformed text and on the empty text
json_loads_raises(stdout) == stdout.tag \in {"bad", "empty"}

RECURSIVE Parse(_)
Parse(text) ==
    CASE text.tag = "map" ->
           LET keys == {text.items[i][1] : i \in DOMAIN text.items}
               last(k) == CHOOSE i \in DOMAIN text.items :
                              /\ text.items[i][1] = k
                              /\ \A j \in DOMAIN text.items : text.items[j][1] = k => j <= i
           IN  PyDict([k \in keys |-> Parse(text.items[last(k)][2])])
      [] text.tag = "str" -> PyStr(text.str)
      [] text.tag = "list" -> PyList(text.list)
      [] OTHER -> PyNone

yaml_safe_load(content) == Parse(content)

json_loads(stdout) == Parse(stdout)

RECURSIVE yaml_dump(_)
yaml_dump(data) ==
    CASE data.tag = "dict" ->
           LET keys == SelectSeq(KeyOrder, LAMBDA k : k \in DOMAIN data.dict)
           IN  Map([i \in DOMAIN keys |-> <<keys[i], yaml_dump(data.dict[keys[i]])>>])
      [] data.tag = "str" -> Str(data.str)
      [] data.tag = "list" -> List(data.list)
      [] OTHER -> Null

\* ------------------------------------------------------ the gcloud calls
DescribeCmd == <<"gcloud", "run", "services", "describe", service_name,
                 "--region", region, "--project", project, "--format", "json">>
ListCmd == <<"gcloud", "run", "revisions", "list", "--service", service_name,
             "--region", region, "--project", project, "--format", "json">>
\* ">" and the path are two more arguments of gcloud: the list is executed
\* without a shell, so nothing is redirected and stdout is captured
ExportCmd == <<"gcloud", "run", "services", "describe", service_name,
               "--region", region, "--project", project, "--format", "export",
               ">", export_file>>
ReplaceCmd == <<"gcloud", "run", "services", "replace", export_file,
                "--region", region, "--project", project>>

\* ------------------------------------- what the platform and disk can hold
ReturnCodes == {0, 1, 2}
ErrTexts == {"service not found", "permission denied"}
RevNames == {"rev-001", "rev-002", "rev-003"}
Revision(n) == [metadata |-> [name |-> n]]
Target(n, pct) == [revisionName |-> n, percent |-> pct]

\* the sequences of distinct revision names of length 0..MaxRevs
RevisionLists ==
    UNION {{s \in [1..n -> RevNames] : \A i, j \in 1..n : i # j => s[i] # s[j]}
           : n \in 0..MaxRevs}

Kind == <<"kind", Str("Service")>>
Template == <<"template", Str("image-a")>>
Traffic(t) == <<"traffic", List(t)>>
Stale == <<Target("rev-000", 100)>>
Split == <<Target("rev-000", 50), Target("rev-001", 50)>>
OldTraffic == {<<>>, Stale, Split}
SpecTexts ==
    {Null, Map(<<Template>>)}
    \cup {Map(<<Template, Traffic(t)>>) : t \in OldTraffic}
    \cup {Map(<<Traffic(t), Template>>) : t \in OldTraffic}
DocTexts ==
    {Bad, Empty, Map(<<Kind>>),
     Map(<<Traffic(Split), Kind, <<"spec", Map(<<Template, Traffic(Stale)>>)>>>>)}
    \cup {Map(<<Kind, <<"spec", s>>>>) : s \in SpecTexts}
    \cup {Map(<<<<"spec", s>>, Kind>>) : s \in SpecTexts}

\* stdout of the calls: well-formed, or text the parser rejects
DescribeOutputs == {Bad, Map(<<Kind>>)}
ListOutputs == {Bad} \cup {List([i \in DOMAIN s |-> Revision(s[i])]) : s \in RevisionLists}
ExportOutputs == {Map(<<Kind, <<"spec", Map(<<Template, Traffic(t)>>)>>>>) : t \in {Stale, Split}}
InitialFiles == {Absent} \cup DocTexts
ConcFiles == {Absent, Bad} \cup ExportOutputs

\* --------------------------------------------------------------- state
VARIABLES proc, fs, runs
vars == <<proc, fs, runs>>

\* subprocess.run(cmd, capture_output=True, text=True): the CompletedProcess.
\* main() reads stdout only after status 0 and stderr only after a non-zero
\* status, so the stream it does not read is left empty.
Completed(rc, out, err) ==
    [returncode |-> rc,
     stdout |-> IF rc = 0 THEN out ELSE Empty,
     stderr |-> IF rc = 0 THEN "" ELSE err]
NoResult == Completed(0, Empty, "")

Ev(op, cmd, rc, data) == [op |-> op, cmd |-> cmd, returncode |-> rc, data |-> data]
Line(text, arg) == [text |-> text, arg |-> arg]

NotExited == 0 - 1

\* the locals of main() before its first statement
Fresh ==
    [pc |-> "describe", result |-> NoResult, service |-> PyNone,
     revisions |-> <<>>, existing_revision_names |-> <<>>,
     latest_revision |-> "", new_traffic |-> <<>>,
     content |-> Empty, service_config |-> PyNone,
     out |-> <<>>, trace |-> <<>>, exit_code |-> NotExited, uncaught |-> ""]
Off == [Fresh EXCEPT !.pc = "off"]

print_line(s, line) == [s EXCEPT !.out = Append(@, line)]
Run(s, cmd, res, data) ==
    [s EXCEPT !.result = res, !.trace = Append(@, Ev("run", cmd, res.returncode, data))]
\* return <code> from main(), then sys.exit
Exit(s, code) == [s EXCEPT !.pc = "done", !.exit_code = code]
\* an exception nothing catches: traceback, exit status 1
Raise(s, exc) == [s EXCEPT !.pc = "done", !.exit_code = 1, !.uncaught = exc]

\* mutant: the status is compared with 1 instead of with 0
Failed_only_one(result) == result.returncode = 1
Failed(result) == result.returncode # 0

ExistingRevisionNames(revisions) == [i \in DOMAIN revisions |-> revisions[i].metadata.name]
\* mutant: the last element is taken for the latest
LatestRevision_last(revisions) == revisions[Len(revisions)].metadata.name
LatestRevision(revisions) == revisions[1].metadata.name
NewTraffic(latest_revision) == <<Target(latest_revision, 100)>>

\* mutant: an empty list is tolerated and no revision is selected
SelectLatest_default(s) ==
    LET revisions == json_loads(s.result.stdout).list
        names == ExistingRevisionNames(revisions)
        latest == IF Len(revisions) = 0 THEN "" ELSE LatestRevision(revisions)
        s1 == [s EXCEPT !.revisions = revisions, !.existing_revision_names = names]
        s2 == print_line(s1, Line("Latest revision: ", latest))
        s3 == print_line(s2, [text |-> "Existing revisions: ", names |-> names])
    IN  [s3 EXCEPT !.latest_revision = latest,
                   !.new_traffic = NewTraffic(latest),
                   !.pc = "export"]
SelectLatest(s) ==
    LET revisions == json_loads(s.result.stdout).list
        names == ExistingRevisionNames(revisions)
        s1 == [s EXCEPT !.revisions = revisions, !.existing_revision_names = names]
    IN  IF Len(revisions) = 0
        THEN Raise(s1, "IndexError")
        ELSE LET latest == LatestRevision(revisions)
                 s2 == print_line(s1, Line("Latest revision: ", latest))
                 s3 == print_line(s2, [text |-> "Existing revisions: ", names |-> names])
             IN  [s3 EXCEPT !.latest_revision = latest,
                            !.new_traffic = NewTraffic(latest),
                            !.pc = "export"]

SetItem(d, k, v) == [x \in DOMAIN d \cup {k} |-> IF x = k THEN v ELSE d[x]]
\* mutant: service_config['spec'] = {'traffic': new_traffic}
SetTraffic_replaces_spec(service_config, new_traffic) ==
    PyDict(SetItem(service_config.dict, "spec",
                   PyDict(SetItem(NoKeys, "traffic", PyList(new_traffic)))))
\* mutant: service_config['spec']['traffic'] += new_traffic
SetTraffic_appends(service_config, new_traffic) ==
    LET spec == service_config.dict["spec"].dict
        old == IF "traffic" \in DOMAIN spec /\ spec["traffic"].tag = "list"
               THEN spec["traffic"].list ELSE <<>>
    IN  PyDict(SetItem(service_config.dict, "spec",
                       PyDict(SetItem(spec, "traffic", PyList(old \o new_traffic)))))
\* service_config['spec']['traffic'] = new_traffic
SetTraffic(service_config, new_traffic) ==
    PyDict(SetItem(service_config.dict, "spec",
                   PyDict(SetItem(service_config.dict["spec"].dict, "traffic",
                                  PyList(new_traffic)))))

PatchRaises(content) ==
    IF yaml_load_raises(content) THEN "YAMLError"
    ELSE LET cfg == yaml_safe_load(content)
         IN  IF cfg.tag # "dict" THEN "TypeError"
             ELSE IF "spec" \notin DOMAIN cfg.dict THEN "KeyError"
             ELSE IF cfg.dict["spec"].tag # "dict" THEN "TypeError"
             ELSE ""

\* what main() does with the result of each call, up to its next call or
\* file operation (s.result is the CompletedProcess just returned)
AfterDescribe(s) ==
    IF Failed(s.result)
    THEN Exit(print_line(s, Line("Error getting service: ", s.result.stderr)), 1)
    ELSE IF json_loads_raises(s.result.stdout) THEN Raise(s, "JSONDecodeError")
    ELSE [s EXCEPT !.service = json_loads(s.result.stdout), !.pc = "list"]

AfterList(s) ==
    IF Failed(s.result)
    THEN Exit(print_line(s, Line("Error getting revisions: ", s.result.stderr)), 1)
    ELSE IF json_loads_raises(s.result.stdout) THEN Raise(s, "JSONDecodeError")
    ELSE SelectLatest(s)

\* mutant: the status of the export call is not looked at
AfterExport_unchecked(s) == [s EXCEPT !.pc = "read"]
AfterExport(s) ==
    IF Failed(s.result)
    THEN Exit(print_line(s, Line("Error exporting service: ", s.result.stderr)), 1)
    ELSE [s EXCEPT !.pc = "read"]

\* mutant: the confirmation is printed before the status is looked at
AfterReplace_confirms_first(s) ==
    LET s1 == print_line(print_line(s,
                  Line("Traffic configuration updated successfully!", "")),
                  Line("All traffic now routes to: ", s.latest_revision))
    IN  IF Failed(s.result)
        THEN Exit(print_line(s1, Line("Error applying configuration: ", s.result.stderr)), 1)
        ELSE Exit(s1, 0)
AfterReplace(s) ==
    IF Failed(s.result)
    THEN Exit(print_line(s, Line("Error applying configuration: ", s.result.stderr)), 1)
    ELSE Exit(print_line(print_line(s,
                  Line("Traffic configuration updated successfully!", "")),
                  Line("All traffic now routes to: ", s.latest_revision)), 0)

\* --------------------------------------------------------------- actions
DescribeService(p) ==
    /\ proc[p].pc = "describe"
    /\ \E rc \in ReturnCodes, o \in DescribeOutputs, e \in ErrTexts :
         LET res == Completed(rc, o, e)
             s0 == print_line(proc[p], Line("Fixing traffic for ", service_name))
             s1 == Run(s0, DescribeCmd, res, Absent)
         IN  proc' = [proc EXCEPT ![p] = AfterDescribe(s1)]
    /\ UNCHANGED <<fs, runs>>

ListRevisions(p) ==
    /\ proc[p].pc = "list"
    /\ \E rc \in ReturnCodes, o \in ListOutputs, e \in ErrTexts :
         LET res == Completed(rc, o, e)
             s1 == Run(proc[p], ListCmd, res, Absent)
         IN  proc' = [proc EXCEPT ![p] = AfterList(s1)]
    /\ UNCHANGED <<fs, runs>>

ExportConfig(p) ==
    /\ proc[p].pc = "export"
    /\ \E rc \in ReturnCodes, o \in ExportOutputs, e \in ErrTexts :
         LET res == Completed(rc, o, e)
             s1 == Run(proc[p], ExportCmd, res, Absent)
         IN  proc' = [proc EXCEPT ![p] = AfterExport(s1)]
    /\ UNCHANGED <<fs, runs>>

ReadExport(p) ==
    /\ proc[p].pc = "read"
    /\ LET s == proc[p]
           content == fs[export_file]
           s1 == [s EXCEPT !.content = content,
                           !.trace = Append(@, Ev("read", <<>>, 0, content))]
       IN  proc' = [proc EXCEPT ![p] =
               IF content = Absent THEN Raise(s, "FileNotFoundError")
               ELSE IF PatchRaises(content) # "" THEN Raise(s1, PatchRaises(content))
               ELSE [s1 EXCEPT !.service_config =
                                   SetTraffic(yaml_safe_load(content), s.new_traffic),
                               !.pc = "open_w"]]
    /\ UNCHANGED <<fs, runs>>

OpenForWrite(p) ==
    /\ proc[p].pc = "open_w"
    /\ fs' = [fs EXCEPT ![export_file] = Empty]
    /\ proc' = [proc EXCEPT ![p].pc = "dump",
                            ![p].trace = Append(@, Ev("truncate", <<>>, 0, Empty))]
    /\ UNCHANGED runs

DumpConfig(p) ==
    /\ proc[p].pc = "dump"
    /\ LET text == yaml_dump(proc[p].service_config)
       IN  /\ fs' = [fs EXCEPT ![export_file] = text]
           /\ proc' = [proc EXCEPT ![p].pc = "replace",
                                   ![p].trace = Append(@, Ev("write", <<>>, 0, text))]
    /\ UNCHANGED runs

ApplyConfig(p) ==
    /\ proc[p].pc = "replace"
    /\ \E rc \in ReturnCodes, e \in ErrTexts :
         LET res == Completed(rc, Empty, e)
             s0 == print_line(proc[p], Line("Applying new traffic configuration...", ""))
             s1 == Run(s0, ReplaceCmd, res, fs[export_file])
         IN  proc' = [proc EXCEPT ![p] = AfterReplace(s1)]
    /\ UNCHANGED <<fs, runs>>

\* the script is invoked again after an earlier run has ended
Restart(p) ==
    /\ proc[p].pc = "done"
    /\ runs < MaxRuns
    /\ proc' = [proc EXCEPT ![p] = Fresh]
    /\ runs' = runs + 1
    /\ UNCHANGED fs

Step(p) ==
    \/ DescribeService(p)
    \/ ListRevisions(p)
    \/ ExportConfig(p)
    \/ ReadExport(p)
    \/ OpenForWrite(p)
    \/ DumpConfig(p)
    \/ ApplyConfig(p)

\* one invocation at a time, the file left by a run seen by the next
Init ==
    /\ proc = [p \in Procs |-> IF p = 1 THEN Fresh ELSE Off]
    /\ fs \in [{export_file} -> InitialFiles]
    /\ runs = 1

Next == Step(1) \/ Restart(1)

Spec == Init /\ [][Next]_vars

\* two invocations started side by side on the one export_file
InitConc ==
    /\ proc = [p \in Procs |-> Fresh]
    /\ fs \in [{export_file} -> ConcFiles]
    /\ runs = 1

NextConc == \E p \in Procs : Step(p)

SpecConc == InitConc /\ [][NextConc]_vars

\* ================================================================ claims
Calls(s) == SelectSeq(s.trace, LAMBDA e : e.op = "run")
FileOps(s) == SelectSeq(s.trace, LAMBDA e : e.op # "run")
CallOrder == <<DescribeCmd, ListCmd, ExportCmd, ReplaceCmd>>
Confirmed(s) ==
    \E i \in DOMAIN s.out : s.out[i].text \in {"Traffic configuration updated successfully!",
                                               "All traffic now routes to: "}
PastExport == {"read", "open_w", "dump", "replace"}

\* C1: in every run the external calls are describe(json), revisions list,
\* describe(export), services replace, in that order and each at most once;
\* every call but the last one issued returned 0; replace is issued only
\* after this run wrote the patched document; and a run that is past the
\* export step has issued describe(export) as its third call, after and apart
\* from the first describe.
C1_CallOrder ==
    \A p \in Procs :
        LET s == proc[p]
            c == Calls(s)
        IN  /\ Len(c) <= Len(CallOrder)
            /\ \A i \in DOMAIN c : c[i].cmd = CallOrder[i]
            /\ \A i \in DOMAIN c : i < Len(c) => c[i].returncode = 0
            /\ \A i \in DOMAIN s.trace :
                   s.trace[i].cmd = ReplaceCmd
                   => \E j \in 1..(i - 1) : s.trace[j].op = "write"
            /\ s.pc \in PastExport
               => /\ Len(c) = 3
                  /\ c[1].cmd = DescribeCmd /\ c[3].cmd = ExportCmd
                  /\ c[1].cmd # c[3].cmd
C1_Witness ==
    /\ Len(Calls(proc[1])) = 4
    /\ proc[1].exit_code = 0

\* C2: a call that returns a non-zero status is the last thing its run does:
\* the run has ended with exit code 1, the last line printed carries the
\* stderr captured from that call, and no call or file operation follows it.
\* Exit code 0 and the confirmation occur only after four calls returning 0.
C2_AbortOnFailure ==
    \A p \in Procs :
        LET s == proc[p]
            c == Calls(s)
        IN  /\ \A i \in DOMAIN s.trace :
                   (s.trace[i].op = "run" /\ s.trace[i].returncode # 0)
                   => /\ i = Len(s.trace)
                      /\ s.pc = "done" /\ s.exit_code = 1
                      /\ s.result.returncode = s.trace[i].returncode
                      /\ s.result.stderr \in ErrTexts
                      /\ s.out[Len(s.out)].arg = s.result.stderr
                      /\ s.out[Len(s.out)].text \in
                            {"Error getting service: ", "Error getting revisions: ",
                             "Error exporting service: ", "Error applying configuration: "}
            /\ (s.exit_code = 0 \/ Confirmed(s))
               => /\ Len(c) = 4
                  /\ \A i \in DOMAIN c : c[i].returncode = 0
C2_Witness ==
    LET s == proc[1]
    IN  /\ Len(Calls(s)) = 2
        /\ s.result.returncode = 2
        /\ s.result.stderr = "service not found"
        /\ s.out[Len(s.out)] = Line("Error getting revisions: ", "service not found")
        /\ s.exit_code = 1

\* C3: when the list call returned 0 and the run holds an empty revision
\* sequence, the run has ended with exit code 1 on an uncaught exception, its
\* last call is the list call (no export, no replace), it performed no file
\* operation and printed no confirmation.
C3_EmptyListFails ==
    \A p \in Procs :
        LET s == proc[p]
            c == Calls(s)
        IN  (Len(c) >= 2 /\ c[2].returncode = 0 /\ s.revisions = <<>>)
            => /\ s.pc = "done" /\ s.exit_code = 1
               /\ s.uncaught \in {"IndexError", "JSONDecodeError"}
               /\ Len(c) = 2
               /\ FileOps(s) = <<>>
               /\ ~Confirmed(s)
C3_Witness ==
    /\ proc[1].result.stdout = List(<<>>)
    /\ Len(Calls(proc[1])) = 2
    /\ proc[1].uncaught = "IndexError"
    /\ proc[1].exit_code = 1

\* C4: once the list step is done, the selected revision is the name of the
\* first element of the sequence the list call returned, no other element's,
\* and the traffic assignment has the one entry {that name, 100}.
C4_SelectFirst ==
    \A p \in Procs :
        LET s == proc[p]
        IN  (s.pc \in PastExport \cup {"export"} \/ Len(Calls(s)) >= 3)
            => /\ s.revisions # <<>>
               /\ s.latest_revision = s.revisions[1].metadata.name
               /\ \A i \in 2..Len(s.revisions) :
                      s.latest_revision # s.revisions[i].metadata.name
               /\ s.pc = "export" => s.revisions = s.result.stdout.list
               /\ Len(s.new_traffic) = 1
               /\ s.new_traffic[1].revisionName = s.latest_revision
               /\ s.new_traffic[1].percent = 100
C4_Witness ==
    /\ proc[1].pc = "export"
    /\ Len(proc[1].result.stdout.list) = MaxRevs
    /\ proc[1].latest_revision = "rev-002"

\* the run has written its patched document (and may have gone on to replace)
Patched(s) == s.pc = "replace" \/ Len(Calls(s)) = 4
HasSpecMapping(content) == content # Absent /\ PatchRaises(content) = ""
SpecOf(text) == yaml_safe_load(text).dict["spec"].dict
Replaced(s) == \E i \in DOMAIN s.trace : s.trace[i].cmd = ReplaceCmd

\* C5 (as claimed): a run that has ended, whose calls all returned 0 up to
\* and including the export, and whose list was non-empty, has ended Applied:
\* exit code 0, four calls, the submitted document's spec.traffic is
\* [{first listed revision, 100}] and the confirmation names that revision.
C5_AppliesWhenCallsSucceed ==
    \A p \in Procs :
        LET s == proc[p]
            c == Calls(s)
        IN  (/\ s.pc = "done" /\ Len(c) >= 3 /\ s.revisions # <<>>
             /\ \A i \in DOMAIN c : c[i].returncode = 0)
            => /\ s.exit_code = 0
               /\ Len(c) = 4
               /\ SpecOf(c[4].data)["traffic"] =
                      PyList(<<Target(s.revisions[1].metadata.name, 100)>>)
               /\ s.out[Len(s.out)] =
                      Line("All traffic now routes to: ", s.revisions[1].metadata.name)

\* C6 (as claimed): after the export call returned 0 the file at export_file
\* holds the text that call returned, and that text is what the patch reads.
C6_FileHoldsExport ==
    \A p \in Procs :
        LET s == proc[p]
        IN  /\ s.pc = "read" => fs[export_file] = s.result.stdout
            /\ s.pc \in {"open_w", "dump", "replace"} => s.content = s.result.stdout

\* C7: a run reaches the end of its patch step exactly when the document it
\* read has a 'spec' mapping, and then the file at export_file, parsed again,
\* has the keys of the document read, every top-level value other than spec
\* unchanged, and in spec the keys of the original plus traffic with every
\* value other than traffic unchanged; the run's last file operation is the
\* write of that text.
C7_PatchKeepsOtherFields ==
    \A p \in Procs :
        LET s == proc[p]
            orig == yaml_safe_load(s.content)
            after == yaml_safe_load(fs[export_file])
            ops == FileOps(s)
        IN  /\ s.uncaught \in {"YAMLError", "TypeError", "KeyError"}
               => ~HasSpecMapping(s.content)
            /\ Patched(s)
               => /\ HasSpecMapping(s.content)
                  /\ HasSpecMapping(fs[export_file])
                  /\ DOMAIN after.dict = DOMAIN orig.dict
                  /\ \A k \in DOMAIN orig.dict \ {"spec"} : after.dict[k] = orig.dict[k]
                  /\ DOMAIN SpecOf(fs[export_file]) = DOMAIN SpecOf(s.content) \cup {"traffic"}
                  /\ \A k \in DOMAIN SpecOf(s.content) \ {"traffic"} :
                         SpecOf(fs[export_file])[k] = SpecOf(s.content)[k]
                  /\ ops[Len(ops)] = Ev("write", <<>>, 0, fs[export_file])
C7_Witness ==
    /\ proc[1].pc = "replace"
    /\ proc[1].content = Map(<<<<"spec", Map(<<Traffic(Split), Template>>)>>, Kind>>)
    /\ fs[export_file] # proc[1].content

\* C8: after the patch step spec.traffic of the file is exactly
\* [{selected revision, 100}], whatever traffic the document read held: one
\* that already was this assignment is left equal to itself, and one patched
\* earlier with another revision, or with several entries, keeps none of them.
C8_PatchReplacesTraffic ==
    \A p \in Procs :
        LET s == proc[p]
            prior == SpecOf(s.content)
            now == SpecOf(fs[export_file])
        IN  Patched(s)
            => /\ now["traffic"] = PyList(<<Target(s.latest_revision, 100)>>)
               /\ Len(now["traffic"].list) = 1
               /\ ("traffic" \in DOMAIN prior /\ prior["traffic"] = PyList(s.new_traffic))
                  => now["traffic"] = prior["traffic"]
C8_Witness ==
    LET s == proc[1]
    IN  /\ runs = 2
        /\ s.pc = "replace"
        /\ "traffic" \in DOMAIN SpecOf(s.content)
        /\ \E a \in RevNames \ {s.latest_revision} :
               SpecOf(s.content)["traffic"] = PyList(<<Target(a, 100)>>)

\* C9: a run whose replace call returned non-zero has exit code 1, printed
\* no confirmation, and the file at export_file still holds the document the
\* run wrote and submitted, with its patched spec.traffic.
C9_FailedApplyKeepsFile ==
    \A p \in Procs :
        LET s == proc[p]
        IN  \A i \in DOMAIN s.trace :
                (s.trace[i].cmd = ReplaceCmd /\ s.trace[i].returncode # 0)
                => /\ s.pc = "done" /\ s.exit_code = 1
                   /\ ~Confirmed(s)
                   /\ fs[export_file] # Absent
                   /\ fs[export_file] = yaml_dump(s.service_config)
                   /\ fs[export_file] = s.trace[i].data
                   /\ SpecOf(fs[export_file])["traffic"] = PyList(s.new_traffic)
C9_Witness ==
    /\ Replaced(proc[1])
    /\ proc[1].result.returncode = 1
    /\ proc[1].exit_code = 1
    /\ fs[export_file] = yaml_dump(proc[1].service_config)

\* C10 (as claimed): with two invocations interleaved, the document an
\* invocation submits in its replace call is the one it wrote itself, and the
\* revision its confirmation names is the one in the submitted spec.traffic.
C10_SubmitsOwnDocument ==
    \A p \in Procs :
        LET s == proc[p]
        IN  \A i \in DOMAIN s.trace :
                s.trace[i].cmd = ReplaceCmd
                => /\ s.trace[i].data = yaml_dump(s.service_config)
                   /\ SpecOf(s.trace[i].data)["traffic"] =
                          PyList(<<Target(s.latest_revision, 100)>>)

====
